---- MODULE Spec2Model ----
(***************************************************************************)
(* disk_health_monitor.py as a state machine.                              *)
(*                                                                         *)
(* Text is a sequence of one-character strings, so that the string         *)
(* operations of the program (strip, split, lower, substring search, the   *)
(* regular expression of check_smart_status) are computed and not assumed. *)
(***************************************************************************)
EXTENDS Integers, Sequences, FiniteSets, TLC

(***************************************************************************)
(* Bounds of the model.                                                    *)
(***************************************************************************)
\* rows in one lsblk listing
MaxRows == 2
\* lines in the log source
MaxLogLines == 2
\* unrecognized answers the user gives to one prompt
MaxReprompts == 1

(***************************************************************************)
(* Python string primitives.                                               *)
(***************************************************************************)
NL == "\n"

IsSpace(c) == c \in {" ", NL, "\t"}

UpperChars == <<"A","B","C","D","E","F","G","H","I","J","K","L","M",
                "N","O","P","Q","R","S","T","U","V","W","X","Y","Z">>

LowerChars == <<"a","b","c","d","e","f","g","h","i","j","k","l","m",
                "n","o","p","q","r","s","t","u","v","w","x","y","z">>

Digits == {"0","1","2","3","4","5","6","7","8","9"}

\* \w of the re module, on the ASCII text of the tools
IsWordChar(c) ==
    \/ \E i \in 1..26 : c = UpperChars[i] \/ c = LowerChars[i]
    \/ c \in Digits
    \/ c = "_"

LowerChar(c) ==
    IF \E i \in 1..26 : UpperChars[i] = c
    THEN LowerChars[CHOOSE i \in 1..26 : UpperChars[i] = c]
    ELSE c

\* str.lower()
lower(s) == [i \in 1..Len(s) |-> LowerChar(s[i])]

RECURSIVE lstrip(_)
lstrip(s) ==
    IF s = <<>> THEN s
    ELSE IF IsSpace(Head(s)) THEN lstrip(Tail(s)) ELSE s

RECURSIVE rstrip(_)
rstrip(s) ==
    IF s = <<>> THEN s
    ELSE IF IsSpace(s[Len(s)]) THEN rstrip(SubSeq(s, 1, Len(s) - 1)) ELSE s

\* str.strip()
strip(s) == rstrip(lstrip(s))

\* the least index of s in the set hits, Len(s) + 1 if hits is empty
FirstIndex(s, hits) ==
    IF hits = {} THEN Len(s) + 1
    ELSE CHOOSE i \in hits : \A j \in hits : i <= j

\* index of the first newline of s, Len(s) + 1 if none
FirstNL(s) == FirstIndex(s, {i \in 1..Len(s) : s[i] = NL})

\* index of the first whitespace of s, Len(s) + 1 if none
FirstSpace(s) == FirstIndex(s, {i \in 1..Len(s) : IsSpace(s[i])})

\* str.split('\n'): empty pieces are kept, '' gives ['']
RECURSIVE split_nl(_)
split_nl(s) ==
    LET i == FirstNL(s)
    IN  IF i > Len(s) THEN <<s>>
        ELSE <<SubSeq(s, 1, i - 1)>> \o split_nl(SubSeq(s, i + 1, Len(s)))

\* str.split(): runs of whitespace separate, no empty piece
RECURSIVE split(_)
split(s) ==
    LET t == lstrip(s)
        j == FirstSpace(t)
    IN  IF t = <<>> THEN <<>>
        ELSE <<SubSeq(t, 1, j - 1)>> \o split(SubSeq(t, j, Len(t)))

\* str.splitlines(): line ends dropped, no last empty piece
RECURSIVE splitlines(_)
splitlines(s) ==
    LET i == FirstNL(s)
    IN  IF s = <<>> THEN <<>>
        ELSE IF i > Len(s) THEN <<s>>
        ELSE <<SubSeq(s, 1, i - 1)>> \o splitlines(SubSeq(s, i + 1, Len(s)))

\* file.readlines(): line ends kept
RECURSIVE readlines(_)
readlines(s) ==
    LET i == FirstNL(s)
    IN  IF s = <<>> THEN <<>>
        ELSE IF i > Len(s) THEN <<s>>
        ELSE <<SubSeq(s, 1, i)>> \o readlines(SubSeq(s, i + 1, Len(s)))

\* needle in hay
contains(hay, needle) ==
    \E i \in 0..(Len(hay) - Len(needle)) :
        SubSeq(hay, i + 1, i + Len(needle)) = needle

\* the text of a sequence of lines, each ended by a newline
RECURSIVE JoinLines(_)
JoinLines(ls) ==
    IF ls = <<>> THEN <<>>
    ELSE Head(ls) \o <<NL>> \o JoinLines(Tail(ls))

\* the sequences over S of length at most n
SeqsUpTo(S, n) == UNION {[1..k -> S] : k \in 0..n}

\* no element twice
Distinct(s) == \A i, j \in 1..Len(s) : i # j => s[i] # s[j]

(***************************************************************************)
(* Literals of the program.                                                *)
(***************************************************************************)
\* "/dev/"
DEV == <<"/","d","e","v","/">>
\* 'disk'
DISK == <<"d","i","s","k">>
\* 'part'
PART == <<"p","a","r","t">>
\* 'passed'
PASSED_LOWER == <<"p","a","s","s","e","d">>
\* "UNKNOWN"
UNKNOWN == <<"U","N","K","N","O","W","N">>
\* "ERROR"
ERROR == <<"E","R","R","O","R">>
\* r'SMART overall-health self-assessment test result: (\w+)', up to the group
SMART_PATTERN == <<"S","M","A","R","T"," ","o","v","e","r","a","l","l","-","h","e","a","l","t","h"," ","s","e","l","f","-","a","s","s","e","s","s","m","e","n","t"," ","t","e","s","t"," ","r","e","s","u","l","t",":"," ">>

\* error_keywords
error_keywords == <<
    <<"I","/","O"," ","e","r","r","o","r">>,
    <<"a","t","a","_","e","r","r","o","r">>,
    <<"f","a","i","l">>,
    <<"e","r","r","o","r">>,
    <<"u","n","r","e","s","p","o","n","s","i","v","e">>,
    <<"o","f","f","l","i","n","e">>,
    <<"f","a","u","l","t","y">> >>

\* "Disk Health Alert on Red Hat System"
SUBJECT == <<"D","i","s","k"," ","H","e","a","l","t","h"," ","A","l","e","r","t"," ","o","n"," ","R","e","d"," ","H","a","t"," ","S","y","s","t","e","m">>
\* "The following disk issues were detected:\n\n"
BODY_HEAD == <<"T","h","e"," ","f","o","l","l","o","w","i","n","g"," ","d","i","s","k"," ","i","s","s","u","e","s"," ","w","e","r","e"," ","d","e","t","e","c","t","e","d",":","\n","\n">>
\* "Failed or failing disks (SMART):\n"
SMART_HEAD == <<"F","a","i","l","e","d"," ","o","r"," ","f","a","i","l","i","n","g"," ","d","i","s","k","s"," ","(","S","M","A","R","T",")",":","\n">>
\* "Disk-related errors from system logs:\n"
LOG_HEAD == <<"D","i","s","k","-","r","e","l","a","t","e","d"," ","e","r","r","o","r","s"," ","f","r","o","m"," ","s","y","s","t","e","m"," ","l","o","g","s",":","\n">>
\* " - "
ITEM == <<" ","-"," ">>

\* what re.search gives when nothing matches; a \w+ group is never empty
None == <<>>

(***************************************************************************)
(* The functions of the program.  A process result is a record             *)
(* [launched, returncode, stdout]: launched is FALSE when subprocess.run    *)
(* raised (the tool is missing or cannot be executed).                     *)
(***************************************************************************)
Proc(launched, returncode, stdout) ==
    [launched |-> launched, returncode |-> returncode, stdout |-> stdout]

\* the rows of a listing, each split into its fields
ListingRows(stdout) ==
    LET lines == split_nl(strip(stdout))
    IN  [k \in 1..Len(lines) |-> split(lines[k])]

\* get_disks: "name, typ = line.split()" raises ValueError unless the row has
\* exactly two fields, and the except clause around the loop returns []
get_disks(result) ==
    IF ~result.launched THEN <<>>
    ELSE LET rows == ListingRows(result.stdout)
         IN  IF \E k \in 1..Len(rows) : Len(rows[k]) # 2 THEN <<>>
             ELSE LET kept == SelectSeq(rows, LAMBDA r : r[2] = DISK)
                  IN  [k \in 1..Len(kept) |-> DEV \o kept[k][1]]

\* get_partitions: the same loop, keeping the rows of type 'part'
get_partitions(result) ==
    IF ~result.launched THEN <<>>
    ELSE LET rows == ListingRows(result.stdout)
         IN  IF \E k \in 1..Len(rows) : Len(rows[k]) # 2 THEN <<>>
             ELSE LET kept == SelectSeq(rows, LAMBDA r : r[2] = PART)
                  IN  [k \in 1..Len(kept) |-> DEV \o kept[k][1]]

\* re.search(pattern, output): group(1) of the leftmost match, or None
re_search(output) ==
    LET n == Len(SMART_PATTERN)
        starts == {i \in 1..(Len(output) - n) :
                      /\ SubSeq(output, i, i + n - 1) = SMART_PATTERN
                      /\ IsWordChar(output[i + n])}
    IN  IF starts = {} THEN None
        ELSE LET i == CHOOSE k \in starts : \A m \in starts : k <= m
                 rest == SubSeq(output, i + n, Len(output))
                 stop == FirstIndex(rest, {k \in 1..Len(rest) : ~IsWordChar(rest[k])})
             IN  SubSeq(rest, 1, stop - 1)

\* a launch failure is reported like an unparseable output
check_smart_status_unknown(result) ==
    IF ~result.launched THEN UNKNOWN
    ELSE LET match == re_search(result.stdout)
         IN  IF match # None THEN match ELSE UNKNOWN

check_smart_status(result) ==
    IF ~result.launched THEN ERROR
    ELSE LET match == re_search(result.stdout)
         IN  IF match # None THEN match ELSE UNKNOWN

\* any(keyword.lower() in line.lower() for keyword in error_keywords)
\* the line is searched as it is spelled
is_error_line_as_spelled(line) ==
    \E k \in 1..Len(error_keywords) :
        contains(line, lower(error_keywords[k]))

is_error_line(line) ==
    \E k \in 1..Len(error_keywords) :
        contains(lower(line), lower(error_keywords[k]))

\* log_file: config.LOG_FILE is set; source: [ok, returncode, text], ok FALSE
\* when open() or subprocess.run raised; the exit status of journalctl is not
\* looked at
parse_log_for_errors(log_file, source) ==
    IF ~source.ok THEN <<>>
    ELSE LET logs == IF log_file THEN readlines(source.text)
                     ELSE splitlines(source.text)
             errors == SelectSeq(logs, is_error_line)
         IN  [k \in 1..Len(errors) |-> strip(errors[k])]

\* except Exception as e: print(f"Error parsing logs: {e}")
log_diagnostic_printed(source) == ~source.ok

\* the query is never believed
is_mounted_never(result) == FALSE

is_mounted(result) ==
    IF ~result.launched THEN FALSE ELSE result.returncode = 0

\* body += f" - {x}\n" for x in items
RECURSIVE Itemize(_)
Itemize(items) ==
    IF items = <<>> THEN <<>>
    ELSE ITEM \o Head(items) \o <<NL>> \o Itemize(Tail(items))

\* only the verdict FAILED counts
is_failed_only(status) == lower(status) = <<"f","a","i","l","e","d">>

\* status.lower() != 'passed'
is_failed(status) == lower(status) # PASSED_LOWER

\* both signals are needed
alert_fires_and(failed, errors) == failed # <<>> /\ errors # <<>>

\* if failed_disks or log_errors
alert_fires(failed, errors) == failed # <<>> \/ errors # <<>>

\* both headings are written, whatever the categories hold
compose_body_all_headings(failed, errors) ==
    BODY_HEAD
    \o SMART_HEAD \o Itemize(failed) \o <<NL>>
    \o LOG_HEAD \o Itemize(errors)

compose_body(failed, errors) ==
    BODY_HEAD
    \o (IF failed # <<>> THEN SMART_HEAD \o Itemize(failed) \o <<NL>> ELSE <<>>)
    \o (IF errors # <<>> THEN LOG_HEAD \o Itemize(errors) ELSE <<>>)

\* ans in ('yes', 'y') / ans in ('no', 'n'), ans = input(...).strip().lower()
YES == {<<"y","e","s">>, <<"y">>}

\* an empty answer is taken for a no
NO_by_default == {<<"n","o">>, <<"n">>, <<>>}

NO == {<<"n","o">>, <<"n">>}

read_answer(typed) == lower(strip(typed))

(***************************************************************************)
(* What the host can answer: the outputs of the tools, the log text and    *)
(* what the user types.                                                    *)
(***************************************************************************)
\* rows of "lsblk -dn -o NAME,TYPE": two disks, a device of another type and
\* a row with one field
DiskListingLines == {
    <<"s","d","a"," ","d","i","s","k">>,
    <<"s","d","b"," ","d","i","s","k">>,
    <<"s","r","0"," ","r","o","m">>,
    <<"s","d","c">> }

\* the name of a device path: the text after "/dev/"
DevName(device) == SubSeq(device, Len(DEV) + 1, Len(device))

\* rows of "lsblk -ln -o NAME,TYPE <disk>": the disk itself, two partitions
\* and a row with one field
PartListingLines(disk) == {
    DevName(disk) \o <<" ","d","i","s","k">>,
    DevName(disk) \o <<"1"," ","p","a","r","t">>,
    DevName(disk) \o <<"2"," ","p","a","r","t">>,
    DevName(disk) \o <<"3">> }

\* the listings lsblk can print from a set of rows: each row at most once
Listings(lines) ==
    {JoinLines(rows) : rows \in {r \in SeqsUpTo(lines, MaxRows) : Distinct(r)}}

\* what running a listing can give: the tool missing, or one of its listings
ListingResults(lines) ==
    {Proc(FALSE, 0, <<>>)} \cup {Proc(TRUE, 0, out) : out \in Listings(lines)}

\* outputs of "smartctl -H <disk>"
SmartOutputs == {
    SMART_PATTERN \o <<"P","A","S","S","E","D","\n">>,
    SMART_PATTERN \o <<"F","A","I","L","E","D","!","\n">>,
    SMART_PATTERN \o <<"D","E","G","R","A","D","E","D","\n">>,
    <<"S","M","A","R","T"," ","s","u","p","p","o","r","t"," ","i","s",":"," ","U","n","a","v","a","i","l","a","b","l","e","\n">> }

SmartResults ==
    {Proc(FALSE, 0, <<>>)} \cup {Proc(TRUE, 0, out) : out \in SmartOutputs}

\* lines of the log: two that hold a keyword, one that does not
LogLines == {
    <<"a","t","a","1",":"," ","I","/","O"," ","E","r","r","o","r">>,
    <<"s","d","a",":"," ","d","i","s","k"," ","n","o","m","i","n","a","l">>,
    <<" ","s","d","b"," ","O","F","F","L","I","N","E"," ">> }

\* the exit status of a journalctl that could not read the journal
JournalFailed == 1

\* the log source: open() or subprocess.run raises, or it holds some lines,
\* or journalctl ends with JournalFailed and nothing on its output
LogSources(log_file) ==
    {[ok |-> FALSE, returncode |-> 0, text |-> <<>>]}
    \cup {[ok |-> TRUE, returncode |-> 0, text |-> JoinLines(ls)] :
              ls \in SeqsUpTo(LogLines, MaxLogLines)}
    \cup (IF log_file THEN {}
          ELSE {[ok |-> TRUE, returncode |-> JournalFailed, text |-> <<>>]})

\* what the user types at the prompt
TypedAnswers == {
    <<"y","e","s">>,
    <<" ","Y"," ">>,
    <<"n","o">>,
    <<"N">>,
    <<"m","a","y","b","e">>,
    <<>> }

\* exit statuses of mountpoint -q, umount and fsck
MountpointCodes == {0, 32}
UmountCodes == {0, 32}
FsckCodes == {0, 1, 4}

\* the disk a partition of these listings lies on
Owner(part) == SubSeq(part, 1, Len(part) - 1)

(***************************************************************************)
(* The state of one run.                                                   *)
(***************************************************************************)
VARIABLES
    pc,            \* where the run is
    exit_code,     \* the exit status once the run has ended, -1 before
    disks,         \* main: disks
    i,             \* main: index of the disk being classified
    statuses,      \* the disk and status printed by each turn of the pass, kept
                   \* until main has taken the alert decision
    failed_disks,  \* main: failed_disks
    log_errors,    \* main: log_errors
    scans,         \* how many times parse_log_for_errors has run
    log_diagnostic, \* parse_log_for_errors printed "Error parsing logs"
    emails,        \* the calls of send_email: subject, body, delivered
    d,             \* prompt_repair: index of the disk in its argument
    partitions,    \* prompt_repair: partitions
    p,             \* prompt_repair: index of the partition
    shown,         \* prompt_repair: mounted, as printed before the prompt
    mounted,       \* the host: the partition at hand is mounted
    reprompts,     \* unrecognized answers to the prompt at hand
    answer,        \* how the prompt at hand was left: "none", "yes", "no"
    outcome,       \* how the repair of the partition at hand ended
    calls,         \* the tools run on the partition at hand, in order
    returned,      \* what repair_filesystem returned for the partition at hand
                   \* and the exit code it printed
    enumerated,    \* the partitions get_partitions has returned to
                   \* prompt_repair, over all its disks, in order
    resolved,      \* the partitions whose prompt was left, in order
    tool_out       \* the process the last step ran and what it gave

vars == <<pc, exit_code, disks, i, statuses, failed_disks, log_errors,
          scans, log_diagnostic, emails, d, partitions, p, shown, mounted, reprompts, answer,
          outcome, calls, returned, enumerated, resolved, tool_out>>

mainVars == <<disks, i, statuses, failed_disks, log_errors, scans, log_diagnostic,
              emails>>
partVars == <<shown, mounted, reprompts, answer, outcome, calls, returned>>
histVars == <<enumerated, resolved>>
repairVars == <<d, partitions, p, partVars, histVars>>

\* repair_filesystem has not returned
NotReturned == [value |-> FALSE, code |-> -1, done |-> FALSE]

\* repair_filesystem returned value, having printed the exit code (-1: none)
Returned(value, code) == [value |-> value, code |-> code, done |-> TRUE]

Ran(tool, device, result) == [tool |-> tool, device |-> device, result |-> result]

\* the step ran no process
NoTool == Ran("none", <<>>, Proc(TRUE, 0, <<>>))

\* one entry of calls: site is the function that ran the tool, was_mounted
\* the mount state of the partition when the tool started
Call(site, tool, device, was_mounted, result) ==
    [site |-> site, tool |-> tool, device |-> device,
     was_mounted |-> was_mounted, result |-> result]

\* nothing is known yet of the partition at hand
FreshPartition ==
    /\ shown' = FALSE
    /\ mounted' = FALSE
    /\ reprompts' = 0
    /\ answer' = "none"
    /\ outcome' = "none"
    /\ calls' = <<>>
    /\ returned' = NotReturned

Init ==
    /\ pc = "import"
    /\ exit_code = -1
    /\ disks = <<>>
    /\ i = 1
    /\ statuses = <<>>
    /\ failed_disks = <<>>
    /\ log_errors = <<>>
    /\ scans = 0
    /\ log_diagnostic = FALSE
    /\ emails = <<>>
    /\ d = 1
    /\ partitions = <<>>
    /\ p = 1
    /\ shown = FALSE
    /\ mounted = FALSE
    /\ reprompts = 0
    /\ answer = "none"
    /\ outcome = "none"
    /\ calls = <<>>
    /\ returned = NotReturned
    /\ enumerated = <<>>
    /\ resolved = <<>>
    /\ tool_out = NoTool

(***************************************************************************)
(* Module level: import config, or print the instruction and exit(1).      *)
(***************************************************************************)
ImportConfig ==
    /\ pc = "import"
    /\ \E present \in BOOLEAN :
          IF present
          THEN pc' = "main" /\ UNCHANGED exit_code
          ELSE pc' = "exit" /\ exit_code' = 1
    /\ tool_out' = NoTool
    /\ UNCHANGED <<mainVars, repairVars>>

(***************************************************************************)
(* main                                                                    *)
(***************************************************************************)
\* disks = get_disks(); if not disks: return
MainGetDisks ==
    /\ pc = "main"
    /\ \E result \in ListingResults(DiskListingLines) :
          /\ tool_out' = Ran("lsblk", <<>>, result)
          /\ disks' = get_disks(result)
    /\ IF disks' = <<>>
       THEN pc' = "done" /\ exit_code' = 0
       ELSE pc' = "classify" /\ UNCHANGED exit_code
    /\ UNCHANGED <<i, statuses, failed_disks, log_errors, scans, log_diagnostic,
                   emails, repairVars>>

\* a diagnostic that could not run ends the pass
classification_over_on_error(all, idx, status) == idx = Len(all) \/ status = ERROR

\* "for disk in disks" is over after the turn of the last disk, whatever the
\* status of the turn
classification_over(all, idx, status) == idx = Len(all)

\* one turn of "for disk in disks"
MainClassify ==
    /\ pc = "classify"
    /\ i <= Len(disks)
    /\ \E result \in SmartResults :
          LET status == check_smart_status(result)
          IN  /\ tool_out' = Ran("smartctl", disks[i], result)
              /\ statuses' = Append(statuses, [disk |-> disks[i], status |-> status])
              /\ failed_disks' = IF is_failed(status)
                                 THEN Append(failed_disks, disks[i])
                                 ELSE failed_disks
              /\ pc' = IF classification_over(disks, i, status)
                       THEN "scan" ELSE "classify"
    /\ i' = i + 1
    /\ UNCHANGED <<exit_code, disks, log_errors, scans, log_diagnostic, emails,
                   repairVars>>

\* log_errors = parse_log_for_errors(), from the file when config.LOG_FILE is
\* set and from journalctl otherwise
MainParseLog ==
    /\ pc = "scan"
    /\ \E log_file \in BOOLEAN :
          \E source \in LogSources(log_file) :
              /\ tool_out' = Ran(IF log_file THEN "open" ELSE "journalctl", <<>>, source)
              /\ log_errors' = parse_log_for_errors(log_file, source)
              /\ log_diagnostic' = log_diagnostic_printed(source)
    /\ scans' = scans + 1
    /\ pc' = "alert"
    /\ UNCHANGED <<exit_code, disks, i, statuses, failed_disks, emails, repairVars>>

\* a message that failed is sent a second time
send_email_retried(msg) == IF msg.delivered THEN <<msg>> ELSE <<msg, msg>>

\* send_email: the attempts made to deliver msg; an attempt that fails is
\* printed, and nothing is raised to main
send_email(msg) == <<msg>>

\* if failed_disks or log_errors: compose, send_email, then prompt_repair;
\* send_email keeps its own failure to itself
MainAlert ==
    /\ pc = "alert"
    /\ IF alert_fires(failed_disks, log_errors)
       THEN /\ \E delivered \in BOOLEAN :
                 emails' = emails \o send_email(
                               [subject |-> SUBJECT,
                                body |-> compose_body(failed_disks, log_errors),
                                delivered |-> delivered])
            /\ pc' = "next_disk"
            /\ UNCHANGED exit_code
       ELSE /\ pc' = "done"
            /\ exit_code' = 0
            /\ UNCHANGED emails
    /\ statuses' = <<>>
    /\ tool_out' = NoTool
    /\ UNCHANGED <<disks, i, failed_disks, log_errors, scans, log_diagnostic,
                   repairVars>>

(***************************************************************************)
(* prompt_repair(failed_disks) and repair_filesystem(part)                 *)
(***************************************************************************)
\* every disk is offered for repair
repair_targets_all == disks

\* the argument main passes to prompt_repair
repair_targets == failed_disks

\* one turn of "for disk in disks": partitions = get_partitions(disk)
PromptRepairDisk ==
    /\ pc = "next_disk"
    /\ IF d > Len(repair_targets)
       THEN /\ pc' = "done"
            /\ exit_code' = 0
            /\ tool_out' = NoTool
            /\ UNCHANGED <<d, partitions, p, enumerated>>
       ELSE /\ \E result \in ListingResults(PartListingLines(repair_targets[d])) :
                 /\ tool_out' = Ran("lsblk", repair_targets[d], result)
                 /\ partitions' = get_partitions(result)
            /\ enumerated' = enumerated \o partitions'
            /\ IF partitions' = <<>>
               THEN d' = d + 1 /\ pc' = "next_disk" /\ UNCHANGED p
               ELSE p' = 1 /\ pc' = "show" /\ UNCHANGED d
            /\ UNCHANGED exit_code
    /\ UNCHANGED <<mainVars, partVars, resolved>>

\* what "mountpoint -q" gives on a partition whose mount state is m
MountpointResults(m) ==
    {Proc(FALSE, 0, <<>>)}
    \cup {Proc(TRUE, rc, <<>>) : rc \in {c \in MountpointCodes : (c = 0) <=> m}}

\* one turn of "for part in partitions", up to the prompt: the partition is in
\* some mount state, is_mounted(part) is printed
PromptRepairShow ==
    /\ pc = "show"
    /\ \E m \in BOOLEAN :
          /\ mounted' = m
          /\ \E result \in MountpointResults(m) :
                /\ tool_out' = Ran("mountpoint", partitions[p], result)
                /\ shown' = is_mounted(result)
                /\ calls' = <<Call("prompt_repair", "mountpoint", partitions[p], m, result)>>
    /\ pc' = "ask"
    /\ UNCHANGED <<exit_code, mainVars, d, partitions, p, reprompts, answer, outcome,
                   returned, histVars>>

\* one turn of "while True": the answer is read, stripped and lowered
PromptRepairAnswer ==
    /\ pc = "ask"
    /\ \E typed \in TypedAnswers :
          /\ IF read_answer(typed) \in YES
             THEN /\ answer' = "yes"
                  /\ pc' = "rf_check"
                  /\ resolved' = Append(resolved, partitions[p])
                  /\ UNCHANGED <<reprompts, outcome>>
             ELSE IF read_answer(typed) \in NO
             THEN /\ answer' = "no"
                  /\ outcome' = "Skipped"
                  /\ pc' = "next_part"
                  /\ resolved' = Append(resolved, partitions[p])
                  /\ UNCHANGED reprompts
             ELSE /\ reprompts < MaxReprompts
                  /\ reprompts' = reprompts + 1
                  /\ UNCHANGED <<pc, answer, outcome, resolved>>
          /\ tool_out' = Ran("input", partitions[p], Proc(TRUE, 0, typed))
    /\ UNCHANGED <<exit_code, mainVars, d, partitions, p, shown, mounted, calls,
                   returned, enumerated>>

\* the host, while the prompt waits: the partition is mounted or unmounted
HostRemount ==
    /\ pc = "ask"
    /\ mounted' = ~mounted
    /\ tool_out' = NoTool
    /\ UNCHANGED <<pc, exit_code, mainVars, d, partitions, p, shown,
                   reprompts, answer, outcome, calls, returned, histVars>>

\* repair_filesystem: if is_mounted(device)
RepairMountCheck ==
    /\ pc = "rf_check"
    /\ \E result \in MountpointResults(mounted) :
          /\ tool_out' = Ran("mountpoint", partitions[p], result)
          /\ calls' = Append(calls, Call("repair_filesystem", "mountpoint",
                                         partitions[p], mounted, result))
          /\ pc' = IF is_mounted(result) THEN "rf_umount" ELSE "rf_fsck"
    /\ UNCHANGED <<exit_code, mainVars, d, partitions, p, shown, mounted,
                   reprompts, answer, outcome, returned, histVars>>

\* a failed umount is taken for a success
umount_failed_never(result) == FALSE

\* if umount_result.returncode != 0
umount_failed(result) == result.returncode # 0

\* repair_filesystem: umount; a nonzero status returns False, a launch failure
\* is caught by the except clause, which returns False
RepairUmount ==
    /\ pc = "rf_umount"
    /\ \E result \in {Proc(FALSE, 0, <<>>)} \cup {Proc(TRUE, rc, <<>>) : rc \in UmountCodes} :
          /\ tool_out' = Ran("umount", partitions[p], result)
          /\ calls' = Append(calls, Call("repair_filesystem", "umount",
                                         partitions[p], mounted, result))
          /\ IF ~result.launched
             THEN /\ outcome' = "ToolError"
                  /\ returned' = Returned(FALSE, -1)
                  /\ pc' = "next_part"
                  /\ UNCHANGED mounted
             ELSE IF umount_failed(result)
             THEN /\ outcome' = "UnmountFailed"
                  /\ returned' = Returned(FALSE, -1)
                  /\ pc' = "next_part"
                  /\ UNCHANGED mounted
             ELSE /\ mounted' = FALSE
                  /\ pc' = "rf_fsck"
                  /\ UNCHANGED <<outcome, returned>>
    /\ UNCHANGED <<exit_code, mainVars, d, partitions, p, shown, reprompts, answer,
                   histVars>>

\* the exit status 1 of fsck, errors corrected, is taken for a success too
fsck_succeeded_or_corrected(result) == result.returncode \in {0, 1}

\* if result.returncode == 0
fsck_succeeded(result) == result.returncode = 0

\* repair_filesystem: fsck -y; status 0 returns True, any other False, a
\* launch failure is caught by the except clause, which returns False
RepairFsck ==
    /\ pc = "rf_fsck"
    /\ \E result \in {Proc(FALSE, 0, <<>>)} \cup {Proc(TRUE, rc, <<>>) : rc \in FsckCodes} :
          /\ tool_out' = Ran("fsck", partitions[p], result)
          /\ calls' = Append(calls, Call("repair_filesystem", "fsck",
                                         partitions[p], mounted, result))
          /\ IF ~result.launched
             THEN outcome' = "ToolError" /\ returned' = Returned(FALSE, -1)
             ELSE IF fsck_succeeded(result)
             THEN outcome' = "Repaired" /\ returned' = Returned(TRUE, -1)
             ELSE /\ outcome' = "CheckFailed"
                  /\ returned' = Returned(FALSE, result.returncode)
    /\ pc' = "next_part"
    /\ UNCHANGED <<exit_code, mainVars, d, partitions, p, shown, mounted,
                   reprompts, answer, histVars>>

\* the partitions of the disk are given up once a repair has not succeeded
more_partitions_after_success ==
    p < Len(partitions) /\ outcome \in {"Repaired", "Skipped"}

\* "for part in partitions" has another turn to take
more_partitions == p < Len(partitions)

\* prompt_repair: break, and the next turn of "for part in partitions" or of
\* "for disk in disks"
PromptRepairNext ==
    /\ pc = "next_part"
    /\ IF more_partitions
       THEN p' = p + 1 /\ pc' = "show" /\ UNCHANGED d
       ELSE d' = d + 1 /\ pc' = "next_disk" /\ UNCHANGED p
    /\ FreshPartition
    /\ tool_out' = NoTool
    /\ UNCHANGED <<exit_code, mainVars, partitions, histVars>>

Next ==
    \/ ImportConfig
    \/ MainGetDisks
    \/ MainClassify
    \/ MainParseLog
    \/ MainAlert
    \/ PromptRepairDisk
    \/ PromptRepairShow
    \/ PromptRepairAnswer
    \/ HostRemount
    \/ RepairMountCheck
    \/ RepairUmount
    \/ RepairFsck
    \/ PromptRepairNext

Spec == Init /\ [][Next]_vars

\* a step of the program: a tool or input() has returned, or no tool is
\* needed; HostRemount is the host's, not the program's
ProgramStep ==
    \/ ImportConfig
    \/ MainGetDisks
    \/ MainClassify
    \/ MainParseLog
    \/ MainAlert
    \/ PromptRepairDisk
    \/ PromptRepairShow
    \/ PromptRepairAnswer
    \/ RepairMountCheck
    \/ RepairUmount
    \/ RepairFsck
    \/ PromptRepairNext

\* every tool the program runs returns and every prompt is answered; the
\* user gives at most MaxReprompts unrecognized answers to a prompt
LiveSpec == Spec /\ WF_vars(ProgramStep)

(***************************************************************************)
(* The claims.                                                             *)
(***************************************************************************)
Range(seq) == {seq[k] : k \in 1..Len(seq)}

\* the calls of a tool among the calls on the partition at hand
CallsOf(tool) == {k \in 1..Len(calls) : calls[k].tool = tool}

\* the process ran and ended with status rc
Exited(result, rc) == result.launched /\ result.returncode = rc

\* C1: fsck never runs on a mounted partition: whenever repair_filesystem
\* starts fsck on a partition, the partition is not mounted, whatever the
\* mount-state query and the umount gave.
C1_NeverFsckMounted ==
    \A k \in CallsOf("fsck") : calls[k].result.launched => ~calls[k].was_mounted

\* C2: when the mount check of repair_filesystem reports the partition mounted
\* and umount ends with a nonzero status, the outcome is UnmountFailed, no fsck
\* runs on the partition and no other umount is tried.
C2_UnmountFailureHalts ==
    \A k \in CallsOf("umount") :
        (calls[k].result.launched /\ calls[k].result.returncode # 0) =>
            /\ outcome = "UnmountFailed"
            /\ pc = "next_part"
            /\ CallsOf("fsck") = {}
            /\ CallsOf("umount") = {k}
            /\ k = Len(calls)

C2_Witness ==
    /\ outcome = "UnmountFailed"
    /\ \E k \in CallsOf("umount") : Exited(calls[k].result, 32)
    /\ \E k \in CallsOf("mountpoint") :
          calls[k].site = "repair_filesystem" /\ Exited(calls[k].result, 0)

\* C3: when the mount-state query of repair_filesystem sees the partition
\* mounted, every fsck of the partition comes after an umount of that partition
\* that ended with status 0.
C3_UmountBeforeFsck ==
    \A q \in CallsOf("mountpoint") :
        (calls[q].site = "repair_filesystem" /\ Exited(calls[q].result, 0)) =>
            \A f \in CallsOf("fsck") :
                f > q =>
                    \E u \in CallsOf("umount") :
                        /\ q < u /\ u < f
                        /\ calls[u].device = calls[f].device
                        /\ Exited(calls[u].result, 0)
                        /\ \A g \in CallsOf("fsck") : g > u

C3_Witness ==
    /\ \E q \in CallsOf("mountpoint") :
          calls[q].site = "repair_filesystem" /\ Exited(calls[q].result, 0)
    /\ \E u \in CallsOf("umount") : Exited(calls[u].result, 0)
    /\ CallsOf("fsck") # {}

\* the run has taken the alert decision, or ended before reaching it
Decided == pc \in {"next_disk", "show", "ask", "rf_check", "rf_umount", "rf_fsck",
                   "next_part", "done"}

\* C4: in a run that passed the configuration check, send_email is called, and
\* once, exactly when failed_disks or log_errors is not empty; before the
\* decision it is not called.
C4_AlertIff ==
    /\ Decided =>
          /\ Len(emails) <= 1
          /\ (Len(emails) = 1) <=> (failed_disks # <<>> \/ log_errors # <<>>)
    /\ ~Decided => emails = <<>>

\* an alert from the log alone
C4_Witness ==
    /\ pc = "done"
    /\ failed_disks = <<>>
    /\ log_errors # <<>>
    /\ Len(emails) = 1

\* C5: every run that passed the configuration check scans the log exactly
\* once, also when get_disks returned no disk.
C5_ScanRunsOnce ==
    pc = "done" => scans = 1

\* the status is Passed
IsPassed(status) == lower(status) = <<"p","a","s","s","e","d">>

\* the disks among the first k classified whose status is not Passed, in order
RECURSIVE NotPassed(_)
NotPassed(k) ==
    IF k = 0 THEN <<>>
    ELSE NotPassed(k - 1)
         \o (IF IsPassed(statuses[k].status) THEN <<>> ELSE <<statuses[k].disk>>)

\* C6: failed_disks holds exactly the classified disks whose status is not
\* Passed (Failed, Unknown and Error included), in the order of enumeration.
C6_FailedSetExact ==
    pc \in {"classify", "scan", "alert"} =>
        failed_disks = NotPassed(Len(statuses))

C6_Witness ==
    /\ pc = "alert"
    /\ Len(statuses) = 2
    /\ statuses[1].status = UNKNOWN
    /\ IsPassed(statuses[2].status)
    /\ failed_disks = <<disks[1]>>

\* C7: when the alert decision is taken every disk get_disks returned has been
\* classified exactly once, in order, whatever the statuses of the disks
\* before it.
C7_EveryDiskClassifiedOnce ==
    pc \in {"scan", "alert"} =>
        [k \in 1..Len(statuses) |-> statuses[k].disk] = disks

C7_Witness ==
    /\ pc = "alert"
    /\ Len(disks) = 2
    /\ Len(statuses) = 2
    /\ statuses[1].status = ERROR

\* the four statuses, as the program spells them
FourStatuses == {<<"P","A","S","S","E","D">>, <<"F","A","I","L","E","D">>, UNKNOWN, ERROR}

IsWord(s) == s # <<>> /\ \A k \in 1..Len(s) : IsWordChar(s[k])

\* in text, word follows the pattern and ends there
TokenAfterPattern(text, word) ==
    \/ \E c \in Range(text) :
          ~IsWordChar(c) /\ contains(text, SMART_PATTERN \o word \o <<c>>)
    \/ /\ Len(text) >= Len(SMART_PATTERN \o word)
       /\ SubSeq(text, Len(text) - Len(SMART_PATTERN \o word) + 1, Len(text))
             = SMART_PATTERN \o word

WellFormedDevices(stdout, kind) ==
    LET lines == split_nl(strip(stdout))
        rows == [k \in 1..Len(lines) |-> split(lines[k])]
        kept == SelectSeq(rows, LAMBDA r : Len(r) = 2 /\ r[2] = kind)
    IN  [k \in 1..Len(kept) |-> DEV \o kept[k][1]]

\* C9: get_disks and get_partitions skip a row with fewer than two fields and
\* return every well-formed row of their kind, before and after it, in order.
C9_MalformedRowsSkipped ==
    (tool_out.tool = "lsblk" /\ tool_out.result.launched) =>
        IF tool_out.device = <<>>
        THEN disks = WellFormedDevices(tool_out.result.stdout, DISK)
        ELSE partitions = WellFormedDevices(tool_out.result.stdout, PART)

\* C10: umount and fsck run on a partition only when the disk it lies on is in
\* failed_disks and the user answered yes to the prompt for that partition.
C10_RepairOnlyFailedAndConfirmed ==
    \A k \in CallsOf("umount") \cup CallsOf("fsck") :
        /\ answer = "yes"
        /\ calls[k].device = partitions[p]
        /\ Owner(calls[k].device) \in Range(failed_disks)

\* a repair on the failed disk of two, the other having passed
C10_Witness ==
    /\ CallsOf("fsck") # {}
    /\ answer = "yes"
    /\ Len(disks) = 2
    /\ Len(failed_disks) = 1

\* the number of enumerated partitions whose turn in prompt_repair has come
Turns ==
    IF pc = "show" THEN Len(enumerated) - Len(partitions) + p - 1
    ELSE IF pc \in {"ask", "rf_check", "rf_umount", "rf_fsck", "next_part"}
    THEN Len(enumerated) - Len(partitions) + p
    ELSE Len(enumerated)

\* the partitions whose confirmation prompt has been reached, in order
Prompted == resolved \o (IF pc = "ask" THEN <<partitions[p]>> ELSE <<>>)

\* C11: the confirmation prompt is reached for every partition get_partitions
\* returned for a failed disk, in order: the partitions prompted so far are
\* the enumerated ones whose turn has come, and between two disks and at the
\* end all of them, whatever the outcomes of the partitions and disks before.
C11_EveryPartitionPrompted ==
    /\ Turns \in 0..Len(enumerated)
    /\ Prompted = SubSeq(enumerated, 1, Turns)
    /\ pc \in {"next_disk", "done"} => Prompted = enumerated

\* the prompt of the second partition of the second disk, after three others
C11_Witness ==
    /\ pc = "ask"
    /\ d = 2
    /\ p = 2
    /\ Len(resolved) = 3
    /\ Prompted = enumerated

\* C12: a tool of repair_filesystem (the mount-state query, umount, fsck)
\* that cannot be launched ends the partition in ToolError, and no tool is
\* run on the partition after it.
C12_LaunchFailureIsToolError ==
    \A k \in 1..Len(calls) :
        (calls[k].site = "repair_filesystem" /\ ~calls[k].result.launched) =>
            /\ k = Len(calls)
            /\ pc = "next_part"
            /\ outcome = "ToolError"

\* the repair workflow has started
Repairing ==
    \/ pc \in {"show", "ask", "rf_check", "rf_umount", "rf_fsck", "next_part"}
    \/ enumerated # <<>>
    \/ d > 1

\* C13: send_email is called once, with the body composed from failed_disks
\* and log_errors, before prompt_repair starts; a failed delivery is not
\* sent again, and prompt_repair still takes up every failed disk.
C13_AlertOnceThenRepair ==
    /\ Len(emails) <= 1
    /\ Repairing =>
          /\ Len(emails) = 1
          /\ emails[1].body = compose_body(failed_disks, log_errors)
    /\ (pc = "done" /\ emails # <<>>) => d = Len(failed_disks) + 1

\* the delivery failed and both failed disks were taken up
C13_Witness ==
    /\ pc = "done"
    /\ Len(emails) = 1
    /\ ~emails[1].delivered
    /\ Len(failed_disks) = 2
    /\ d = 3
    /\ enumerated # <<>>

\* the step before read the log, or tried to
Scanned == tool_out.tool \in {"open", "journalctl"}

\* the log could not be had: open() or subprocess.run raised, or journalctl
\* ended with a nonzero status
SourceUnavailable ==
    Scanned /\ (~tool_out.result.ok \/ tool_out.result.returncode # 0)

\* C14: when the log source is unavailable (the file cannot be opened,
\* journalctl cannot be launched or fails), parse_log_for_errors returns no
\* anomaly, prints its diagnostic, and the run goes on to the alert decision
\* with the classification alone.
C14_UnavailableLogIsEmptyAndReported ==
    SourceUnavailable =>
        /\ log_errors = <<>>
        /\ log_diagnostic
        /\ pc = "alert"
        /\ alert_fires(failed_disks, log_errors) <=> failed_disks # <<>>

\* the lines of the log source, without their line ends
SourceLines == splitlines(tool_out.result.text)

\* the line holds a keyword of the vocabulary, whatever the case
HasKeyword(line) ==
    \E k \in 1..Len(error_keywords) :
        \E at \in 1..Len(line) :
            /\ at + Len(error_keywords[k]) - 1 <= Len(line)
            /\ \A j \in 1..Len(error_keywords[k]) :
                  LowerChar(line[at + j - 1]) = LowerChar(error_keywords[k][j])

\* the lines of the source that hold a keyword, in order
Flagged == SelectSeq(SourceLines, HasKeyword)

BodyLines == splitlines(emails[1].body)

\* the line is an item of a list of the body
IsItem(line) == Len(line) >= Len(ITEM) /\ SubSeq(line, 1, Len(ITEM)) = ITEM

\* where the line of a heading stands in the body
HeadingAt(head) ==
    {k \in 1..Len(BodyLines) : BodyLines[k] = SubSeq(head, 1, Len(head) - 1)}

\* the n lines after line k of the body are the items of the category
ItemsFollow(k, items) ==
    /\ k + Len(items) <= Len(BodyLines)
    /\ \A j \in 1..Len(items) : BodyLines[k + j] = ITEM \o items[j]

\* send_email has just been called, prompt_repair has not taken a disk yet
JustAlerted == pc = "next_disk" /\ d = 1 /\ emails # <<>>

\* C16: the body of an alert lists the failed disks first and the log errors
\* second, each once and in its order, under the heading of its category; a
\* category that is empty has neither its heading nor an item in the body.
C16_BodyItemizesBothCategories ==
    JustAlerted =>
        LET all == failed_disks \o log_errors
        IN  /\ SelectSeq(BodyLines, IsItem) = [k \in 1..Len(all) |-> ITEM \o all[k]]
            /\ Cardinality(HeadingAt(SMART_HEAD)) = IF failed_disks # <<>> THEN 1 ELSE 0
            /\ Cardinality(HeadingAt(LOG_HEAD)) = IF log_errors # <<>> THEN 1 ELSE 0
            /\ \A h \in HeadingAt(SMART_HEAD) :
                  /\ ItemsFollow(h, failed_disks)
                  /\ \A g \in HeadingAt(LOG_HEAD) : h + Len(failed_disks) < g
            /\ \A g \in HeadingAt(LOG_HEAD) :
                  /\ ItemsFollow(g, log_errors)
                  /\ g + Len(log_errors) = Len(BodyLines)

\* an alert from two log lines alone: the disks have no heading in the body
C16_Witness ==
    /\ JustAlerted
    /\ failed_disks = <<>>
    /\ Len(log_errors) = 2
    /\ HeadingAt(SMART_HEAD) = {}
    /\ HeadingAt(LOG_HEAD) = {3}
    /\ Len(BodyLines) = 5

\* C18: once fsck has run on the partition, repair_filesystem returns True
\* (Repaired) exactly when the exit status of fsck is 0; every other status
\* gives False (CheckFailed), and the status printed is the one fsck gave.
C18_RepairedIffFsckZero ==
    \A k \in CallsOf("fsck") :
        calls[k].result.launched =>
            LET rc == calls[k].result.returncode
            IN  /\ pc = "next_part"
                /\ returned.done
                /\ returned.value <=> rc = 0
                /\ outcome = "Repaired" <=> rc = 0
                /\ rc # 0 => (outcome = "CheckFailed" /\ returned.code = rc)

\* fsck corrected errors and said so with status 1: the repair has failed
C18_Witness ==
    /\ \E k \in CallsOf("fsck") : Exited(calls[k].result, 1)
    /\ outcome = "CheckFailed"
    /\ returned = Returned(FALSE, 1)

\* the mount-state queries a function made on the partition at hand
QueriesOf(site) == {q \in CallsOf("mountpoint") : calls[q].site = site}

\* the partition was not mounted when prompt_repair showed its state and is
\* mounted when repair_filesystem asks again, after the answer
MountedWhilePrompting ==
    /\ \E q \in QueriesOf("prompt_repair") : ~calls[q].was_mounted
    /\ \E q \in QueriesOf("repair_filesystem") : calls[q].was_mounted

\* C19: the mount state is asked again after the user confirmed, and that
\* query decides about the umount, not the one shown before the prompt: a
\* partition that became mounted while the prompt waited is unmounted before
\* fsck runs on it.
C19_MountStateAskedAfterAnswer ==
    /\ (CallsOf("umount") \cup CallsOf("fsck")) # {} =>
          \E q \in QueriesOf("repair_filesystem") :
              \A k \in CallsOf("umount") \cup CallsOf("fsck") : q < k
    /\ MountedWhilePrompting =>
          \A f \in CallsOf("fsck") :
              calls[f].result.launched =>
                  \E u \in CallsOf("umount") : u < f /\ Exited(calls[u].result, 0)

\* the step before was an answer typed at the prompt
Answered == tool_out.tool = "input"

\* the answer typed is yes, y, no or n, whatever its case and the blanks
\* around it
Recognized(typed) ==
    strip(lower(typed)) \in {<<"y","e","s">>, <<"y">>, <<"n","o">>, <<"n">>}

\* C20: the prompt is asked again after every unrecognized answer and left
\* only on yes, y, no or n; with every tool returning and every prompt
\* answered in the end, the run terminates, and at its end the prompt of
\* every partition of every failed disk has been resolved once, in the order
\* of enumeration.
C20_RunTerminates ==
    /\ <>(pc \in {"done", "exit"})
    /\ [](Answered =>
            IF Recognized(tool_out.result.stdout)
            THEN /\ pc \in {"rf_check", "next_part"}
                 /\ resolved # <<>>
                 /\ resolved[Len(resolved)] = partitions[p]
            ELSE /\ pc = "ask"
                 /\ reprompts > 0
                 /\ Prompted = Append(resolved, partitions[p]))
    /\ []((pc = "done" /\ emails # <<>>) =>
            /\ d = Len(failed_disks) + 1
            /\ resolved = enumerated)

\* the run is over and the four partitions of two failed disks are resolved
C20_Witness ==
    /\ pc = "done"
    /\ Len(failed_disks) = 2
    /\ Len(enumerated) = 4
    /\ resolved = enumerated

====
